---- MODULE Spec2Model ----
(***************************************************************************)
(* Tic-Tac-Toe rules engine: board/state.py, board/cell.py, board/grid.py  *)
(* and the request handlers of play.py, as a state machine over the        *)
(* application registry (grid, player, current_turn).                      *)
(***************************************************************************)
EXTENDS Integers, FiniteSets, Sequences, TLC

(* ---------------- board/state.py : State ---------------- *)
EMPTY == "empty"
TAKEN_O == "taken-o"
TAKEN_X == "taken-x"

\* A token that is none of the three State constants ('foo_player' in state_test.py).
FOO_PLAYER == "foo_player"

\* Player tokens a request may carry.
Tokens == {TAKEN_X, TAKEN_O, EMPTY, FOO_PLAYER}

\* State.__getitem__ with the keys shifted by one.
getitem_shifted(key) ==
  IF key = 1 THEN EMPTY ELSE IF key = 2 THEN TAKEN_O ELSE TAKEN_X

\* State.__getitem__: 0 -> EMPTY, 1 -> TAKEN_O, 2 -> TAKEN_X.
getitem(key) ==
  IF key = 0 THEN EMPTY ELSE IF key = 1 THEN TAKEN_O ELSE TAKEN_X

\* random.randint(1, 2) as used by Play.get and RpcHandler.__reset_board.
RandomKeys == 1..2

\* State.next_player answering with the wrong constant for X.
next_player_wrong_constant(current_player) ==
  IF current_player = TAKEN_X THEN EMPTY ELSE TAKEN_X

\* State.next_player with its two answers swapped.
next_player_stuck(current_player) ==
  IF current_player = TAKEN_X THEN TAKEN_X ELSE TAKEN_O

\* State.next_player returning EMPTY where the code returns TAKEN_X.
next_player_to_empty(current_player) ==
  IF current_player = TAKEN_X THEN TAKEN_O ELSE EMPTY

\* State.next_player handing an unknown token back.
next_player_keeps_unknown(current_player) ==
  IF current_player = TAKEN_X THEN TAKEN_O
  ELSE IF current_player = TAKEN_O THEN TAKEN_X
  ELSE current_player

\* State.next_player
next_player(current_player) ==
  IF current_player = TAKEN_X THEN TAKEN_O ELSE TAKEN_X

\* State.is_def
is_def(unverified_state) ==
  IF unverified_state = TAKEN_X \/ unverified_state = TAKEN_O THEN TRUE ELSE FALSE

(* ---------------- board/cell.py : Cell ---------------- *)
NONE == "none"
MSG_TAKEN == "Cannot change state of taken cell."
MSG_EMPTY_STATE == "Cannot take with empty state"
MSG_UNDEFINED == "State is undefined"

\* Cell.take written with the assignment ahead of the checks.
take_assign_first(state, token) ==
  IF state # EMPTY THEN [state |-> token, raised |-> MSG_TAKEN]
  ELSE IF token = EMPTY THEN [state |-> state, raised |-> MSG_EMPTY_STATE]
  ELSE IF is_def(token) THEN [state |-> token, raised |-> NONE]
  ELSE [state |-> state, raised |-> MSG_UNDEFINED]

\* Cell.take returning without the assignment to self.state.
take_keeps_empty(state, token) ==
  IF state # EMPTY THEN [state |-> state, raised |-> MSG_TAKEN]
  ELSE IF token = EMPTY THEN [state |-> state, raised |-> MSG_EMPTY_STATE]
  ELSE IF is_def(token) THEN [state |-> state, raised |-> NONE]
  ELSE [state |-> state, raised |-> MSG_UNDEFINED]

\* Cell.take without the taken-cell check.
take_overwrite(state, token) ==
  IF token = EMPTY THEN [state |-> state, raised |-> MSG_EMPTY_STATE]
  ELSE IF is_def(token) THEN [state |-> token, raised |-> NONE]
  ELSE [state |-> state, raised |-> MSG_UNDEFINED]

\* Cell.take storing TAKEN_X whatever the token.
take_always_x(state, token) ==
  IF state # EMPTY THEN [state |-> state, raised |-> MSG_TAKEN]
  ELSE IF token = EMPTY THEN [state |-> state, raised |-> MSG_EMPTY_STATE]
  ELSE IF is_def(token) THEN [state |-> TAKEN_X, raised |-> NONE]
  ELSE [state |-> state, raised |-> MSG_UNDEFINED]

\* Cell.take without the is_def check of the token.
take_no_validation(state, token) ==
  IF state # EMPTY THEN [state |-> state, raised |-> MSG_TAKEN]
  ELSE IF token = EMPTY THEN [state |-> state, raised |-> MSG_EMPTY_STATE]
  ELSE [state |-> token, raised |-> NONE]

\* Cell.take with the token checks ahead of the taken-cell check.
take_token_first(state, token) ==
  IF token = EMPTY THEN [state |-> state, raised |-> MSG_EMPTY_STATE]
  ELSE IF ~is_def(token) THEN [state |-> state, raised |-> MSG_UNDEFINED]
  ELSE IF state # EMPTY THEN [state |-> state, raised |-> MSG_TAKEN]
  ELSE [state |-> token, raised |-> NONE]

\* Cell.take: the cell's state after the call and the exception message
\* raised (NONE when the call returns normally).
take(state, token) ==
  IF state # EMPTY THEN [state |-> state, raised |-> MSG_TAKEN]
  ELSE IF token = EMPTY THEN [state |-> state, raised |-> MSG_EMPTY_STATE]
  ELSE IF is_def(token) THEN [state |-> token, raised |-> NONE]
  ELSE [state |-> state, raised |-> MSG_UNDEFINED]

(* ---------------- board/grid.py : Grid ---------------- *)
MAX_HORIZONTAL_CELLS == 3
MAX_VERTICAL_CELLS == 3

\* How far past the last index a request's coordinates are drawn.
CoordSlack == 1

\* Coordinates a request may carry: one below the first index up to
\* CoordSlack past the last.
Coords == (0 - 1) .. (MAX_HORIZONTAL_CELLS - 1 + CoordSlack)
Rows == 0 .. (MAX_HORIZONTAL_CELLS - 1)
Cols == 0 .. (MAX_VERTICAL_CELLS - 1)

\* Grid.__make_board: board[x][y] is a fresh Cell(x, y), state EMPTY.
make_board == [x \in Rows |-> [y \in Cols |-> EMPTY]]

\* Grid.to_state_list appending board[j][i] where the code appends board[i][j].
to_state_list_transposed(b) == [i \in Rows |-> [j \in Cols |-> b[j][i]]]

\* Grid.to_state_list
to_state_list(b) == [i \in Rows |-> [j \in Cols |-> b[i][j]]]

\* list.count
count(l, v) == Cardinality({i \in DOMAIN l : l[i] = v})

\* Python's ^ on non-negative integers.
RECURSIVE Xor(_, _)
Xor(a, b) ==
  IF a = 0 /\ b = 0 THEN 0
  ELSE (((a % 2) + (b % 2)) % 2) + (2 * Xor(a \div 2, b \div 2))

\* Grid.__is_column_win
is_column_win(b, p, row) ==
  LET board_state == to_state_list(b)
      column_state == board_state[row]
  IN count(column_state, p) = MAX_VERTICAL_CELLS

\* Grid.__is_row_win with the loop one cell short.
is_row_win_off_by_one(b, p, column) ==
  LET board_state == to_state_list(b)
      row_state == [x \in 0 .. (MAX_HORIZONTAL_CELLS - 2) |-> board_state[x][column]]
  IN count(row_state, p) = MAX_HORIZONTAL_CELLS

\* Grid.__is_row_win
is_row_win(b, p, column) ==
  LET board_state == to_state_list(b)
      row_state == [x \in Rows |-> board_state[x][column]]
  IN count(row_state, p) = MAX_HORIZONTAL_CELLS

\* Grid.__is_diagonal_win without the middle-owner precondition.
is_diagonal_win_no_middle(b, p, column, row) ==
  LET middle_row == MAX_VERTICAL_CELLS \div 2
      middle_column == MAX_HORIZONTAL_CELLS \div 2
      at_middle == column = middle_column /\ row = middle_row
      top_left == b[0][0] = p
      top_right == b[0][MAX_VERTICAL_CELLS - 1] = p
      eff_row == IF at_middle THEN 0 ELSE row
      eff_column == IF at_middle
                    THEN (IF top_left THEN 0 ELSE MAX_VERTICAL_CELLS - 1)
                    ELSE column
      opposite_column == Xor(eff_column, MAX_VERTICAL_CELLS - 1)
      opposite_row == Xor(eff_row, MAX_HORIZONTAL_CELLS - 1)
  IN IF at_middle /\ ~top_left /\ ~top_right THEN FALSE
     ELSE IF opposite_row < MAX_HORIZONTAL_CELLS /\ opposite_column < MAX_VERTICAL_CELLS
          THEN b[opposite_row][opposite_column] = p
          ELSE FALSE

\* Grid.__is_diagonal_win
is_diagonal_win(b, p, column, row) ==
  LET middle_row == MAX_VERTICAL_CELLS \div 2
      middle_column == MAX_HORIZONTAL_CELLS \div 2
      middle_owner == b[middle_column][middle_row]
      at_middle == column = middle_column /\ row = middle_row
      top_left == b[0][0] = p
      top_right == b[0][MAX_VERTICAL_CELLS - 1] = p
      eff_row == IF at_middle THEN 0 ELSE row
      eff_column == IF at_middle
                    THEN (IF top_left THEN 0 ELSE MAX_VERTICAL_CELLS - 1)
                    ELSE column
      opposite_column == Xor(eff_column, MAX_VERTICAL_CELLS - 1)
      opposite_row == Xor(eff_row, MAX_HORIZONTAL_CELLS - 1)
  IN IF middle_owner # p THEN FALSE
     ELSE IF at_middle /\ ~top_left /\ ~top_right THEN FALSE
     ELSE IF opposite_row < MAX_HORIZONTAL_CELLS /\ opposite_column < MAX_VERTICAL_CELLS
          THEN b[opposite_row][opposite_column] = p
          ELSE FALSE

\* Grid.check_coordinates comparing with > where the code compares with >=.
check_coordinates_inclusive(position_x, position_y) ==
  \/ position_x > MAX_HORIZONTAL_CELLS
  \/ position_x < 0
  \/ position_y > MAX_VERTICAL_CELLS
  \/ position_y < 0

\* Grid.check_coordinates: TRUE when InvalidPositionValueException is raised.
check_coordinates(position_x, position_y) ==
  \/ position_x >= MAX_HORIZONTAL_CELLS
  \/ position_x < 0
  \/ position_y >= MAX_VERTICAL_CELLS
  \/ position_y < 0

\* Grid.contains_winner
contains_winner(b, current_player, position_x, position_y) ==
  LET row == position_x
      column == position_y
  IN \/ is_column_win(b, current_player, row)
     \/ is_row_win(b, current_player, column)
     \/ is_diagonal_win(b, current_player, column, row)

\* Grid.contains_tie with both loops one cell short.
contains_tie_skips_last(b) ==
  ~ \E column_cell \in 0 .. (MAX_HORIZONTAL_CELLS - 2) :
      \E row_cell \in 0 .. (MAX_VERTICAL_CELLS - 2) : EMPTY = b[row_cell][column_cell]

\* Grid.contains_tie
contains_tie(b) ==
  ~ \E column_cell \in Rows : \E row_cell \in Cols : EMPTY = b[row_cell][column_cell]

(* ---------------- play.py : Play, RpcHandler ---------------- *)
FAILED == "failed"
IN_PROGRESS == "in_progress"
TIE == "tie"
WIN == "win"
\* Play.get answers with the rendered play.html, not with an RPC dict.
TEMPLATE == "play.html"

MSG_TURN == "Wait your turn"
MSG_POSITION == "Cell cannot be taken at position"
MSG_ACTION == "Cannot recognize action"
MSG_DRAW == "Game is a draw"
MSG_YOU_WON == "You won!"
MSG_I_WON == "I won!"

VARIABLES
  board,         \* app.registry['grid'].board : board[x][y] is the cell's state
  player,        \* app.registry['player'] : the human player's token
  current_turn,  \* app.registry['current_turn']
  request,       \* the last request served: its action and its player token
  response,      \* the dict written by the last handler
  game_over,     \* history: a take has answered WIN or TIE since the last new game / reset
  heap,          \* the Cell objects of the Grid instances a test holds: heap[id] is the object's state
  grids          \* the Grid instances a test holds: grids[g][x][y] is the id of the Cell object at board[x][y]

vars == <<board, player, current_turn, request, response, game_over, heap, grids>>

\* The 'action' of a request; a GET of '/' has none.
REQ_GET == "get"
REQ_RESET == "reset"
REQ_TAKE == "take"
REQ_UNKNOWN == "unknown"

\* A response of status FAILED carries no grid and no tokens.
NoGrid == <<>>
NoTokens == [computer |-> NONE, current_turn |-> NONE, player |-> NONE]

Failed(message) ==
  [status |-> FAILED, message |-> message, grid |-> NoGrid, tokens |-> NoTokens]

\* State after the first GET request (Play.get).
Init ==
  /\ board = make_board
  /\ player \in {getitem(k) : k \in RandomKeys}
  /\ current_turn = TAKEN_X
  /\ request = [action |-> REQ_GET, player |-> NONE]
  /\ response = [status |-> TEMPLATE, message |-> NONE,
                 grid |-> to_state_list(make_board),
                 tokens |-> [computer |-> NONE, current_turn |-> TAKEN_X, player |-> player]]
  /\ game_over = FALSE
  /\ heap = <<>>
  /\ grids = <<>>

\* Play.get
Get(key) ==
  /\ board' = make_board
  /\ player' = getitem(key)
  /\ current_turn' = TAKEN_X
  /\ request' = [action |-> REQ_GET, player |-> NONE]
  /\ response' = [status |-> TEMPLATE, message |-> NONE,
                  grid |-> to_state_list(board'),
                  tokens |-> [computer |-> NONE, current_turn |-> TAKEN_X, player |-> player']]
  /\ game_over' = FALSE
  /\ UNCHANGED <<heap, grids>>

\* RpcHandler.__reset_board without the assignment to registry['current_turn'].
ResetBoard_keeps_turn(key) ==
  /\ board' = make_board
  /\ player' = getitem(key)
  /\ current_turn' = current_turn
  /\ request' = [action |-> REQ_RESET, player |-> NONE]
  /\ response' = [status |-> IN_PROGRESS, message |-> NONE,
                  grid |-> to_state_list(board'),
                  tokens |-> [computer |-> next_player(player'),
                              current_turn |-> TAKEN_X,
                              player |-> player']]
  /\ game_over' = FALSE
  /\ UNCHANGED <<heap, grids>>

\* RpcHandler.__reset_board
ResetBoard(key) ==
  /\ board' = make_board
  /\ player' = getitem(key)
  /\ current_turn' = TAKEN_X
  /\ request' = [action |-> REQ_RESET, player |-> NONE]
  /\ response' = [status |-> IN_PROGRESS, message |-> NONE,
                  grid |-> to_state_list(board'),
                  tokens |-> [computer |-> next_player(player'),
                              current_turn |-> TAKEN_X,
                              player |-> player']]
  /\ game_over' = FALSE
  /\ UNCHANGED <<heap, grids>>

\* RpcHandler.post with an action that is neither 'reset' nor 'take'.
UnknownAction ==
  /\ request' = [action |-> REQ_UNKNOWN, player |-> NONE]
  /\ response' = Failed(MSG_ACTION)
  /\ UNCHANGED <<board, player, current_turn, game_over, heap, grids>>

\* RpcHandler.__take_cell passing the turn on after a winning or tying move too.
TakeCell_passes_turn_at_end(p, position_x, position_y) ==
  LET current_player == current_turn
      \* the cell is reached only when both checks have passed
      r == take(board[position_x][position_y], p)
      game_grid == [board EXCEPT ![position_x][position_y] = r.state]
  IN
  /\ request' = [action |-> REQ_TAKE, player |-> p]
  /\ IF p # current_player THEN
       /\ response' = Failed(MSG_TURN)
       /\ UNCHANGED <<board, player, current_turn, game_over>>
     ELSE IF check_coordinates(position_x, position_y) THEN
       /\ response' = Failed(MSG_POSITION)
       /\ UNCHANGED <<board, player, current_turn, game_over>>
     ELSE
       /\ board' = game_grid
       /\ IF r.raised # NONE THEN
            /\ response' = Failed(r.raised)
            /\ UNCHANGED <<player, current_turn, game_over>>
          ELSE IF contains_winner(game_grid, current_player, position_x, position_y) THEN
            /\ response' = [status |-> WIN,
                            message |-> IF current_player = player THEN MSG_YOU_WON ELSE MSG_I_WON,
                            grid |-> to_state_list(game_grid),
                            tokens |-> [computer |-> NONE, current_turn |-> p, player |-> p]]
            /\ game_over' = TRUE
            /\ current_turn' = next_player(current_player)
            /\ UNCHANGED player
          ELSE IF contains_tie(game_grid) THEN
            /\ response' = [status |-> TIE, message |-> MSG_DRAW,
                            grid |-> to_state_list(game_grid),
                            tokens |-> [computer |-> NONE, current_turn |-> p, player |-> p]]
            /\ game_over' = TRUE
            /\ current_turn' = next_player(current_player)
            /\ UNCHANGED player
          ELSE
            /\ current_turn' = next_player(current_player)
            /\ response' = [status |-> IN_PROGRESS, message |-> NONE,
                            grid |-> to_state_list(game_grid),
                            tokens |-> [computer |-> next_player(player),
                                        current_turn |-> current_turn',
                                        player |-> player]]
            /\ UNCHANGED <<player, game_over>>
  /\ UNCHANGED <<heap, grids>>

\* RpcHandler.__take_cell checking the coordinates ahead of the turn.
TakeCell_coordinates_first(p, position_x, position_y) ==
  LET current_player == current_turn
      \* the cell is reached only when both checks have passed
      r == take(board[position_x][position_y], p)
      game_grid == [board EXCEPT ![position_x][position_y] = r.state]
  IN
  /\ request' = [action |-> REQ_TAKE, player |-> p]
  /\ IF check_coordinates(position_x, position_y) THEN
       /\ response' = Failed(MSG_POSITION)
       /\ UNCHANGED <<board, player, current_turn, game_over>>
     ELSE IF p # current_player THEN
       /\ response' = Failed(MSG_TURN)
       /\ UNCHANGED <<board, player, current_turn, game_over>>
     ELSE
       /\ board' = game_grid
       /\ IF r.raised # NONE THEN
            /\ response' = Failed(r.raised)
            /\ UNCHANGED <<player, current_turn, game_over>>
          ELSE IF contains_winner(game_grid, current_player, position_x, position_y) THEN
            /\ response' = [status |-> WIN,
                            message |-> IF current_player = player THEN MSG_YOU_WON ELSE MSG_I_WON,
                            grid |-> to_state_list(game_grid),
                            tokens |-> [computer |-> NONE, current_turn |-> p, player |-> p]]
            /\ game_over' = TRUE
            /\ UNCHANGED <<player, current_turn>>
          ELSE IF contains_tie(game_grid) THEN
            /\ response' = [status |-> TIE, message |-> MSG_DRAW,
                            grid |-> to_state_list(game_grid),
                            tokens |-> [computer |-> NONE, current_turn |-> p, player |-> p]]
            /\ game_over' = TRUE
            /\ UNCHANGED <<player, current_turn>>
          ELSE
            /\ current_turn' = next_player(current_player)
            /\ response' = [status |-> IN_PROGRESS, message |-> NONE,
                            grid |-> to_state_list(game_grid),
                            tokens |-> [computer |-> next_player(player),
                                        current_turn |-> current_turn',
                                        player |-> player]]
            /\ UNCHANGED <<player, game_over>>
  /\ UNCHANGED <<heap, grids>>

\* RpcHandler.__take_cell
TakeCell(p, position_x, position_y) ==
  LET current_player == current_turn
      \* the cell is reached only when both checks have passed
      r == take(board[position_x][position_y], p)
      game_grid == [board EXCEPT ![position_x][position_y] = r.state]
  IN
  /\ request' = [action |-> REQ_TAKE, player |-> p]
  /\ IF p # current_player THEN
       /\ response' = Failed(MSG_TURN)
       /\ UNCHANGED <<board, player, current_turn, game_over>>
     ELSE IF check_coordinates(position_x, position_y) THEN
       /\ response' = Failed(MSG_POSITION)
       /\ UNCHANGED <<board, player, current_turn, game_over>>
     ELSE
       /\ board' = game_grid
       /\ IF r.raised # NONE THEN
            /\ response' = Failed(r.raised)
            /\ UNCHANGED <<player, current_turn, game_over>>
          ELSE IF contains_winner(game_grid, current_player, position_x, position_y) THEN
            /\ response' = [status |-> WIN,
                            message |-> IF current_player = player THEN MSG_YOU_WON ELSE MSG_I_WON,
                            grid |-> to_state_list(game_grid),
                            tokens |-> [computer |-> NONE, current_turn |-> p, player |-> p]]
            /\ game_over' = TRUE
            /\ UNCHANGED <<player, current_turn>>
          ELSE IF contains_tie(game_grid) THEN
            /\ response' = [status |-> TIE, message |-> MSG_DRAW,
                            grid |-> to_state_list(game_grid),
                            tokens |-> [computer |-> NONE, current_turn |-> p, player |-> p]]
            /\ game_over' = TRUE
            /\ UNCHANGED <<player, current_turn>>
          ELSE
            /\ current_turn' = next_player(current_player)
            /\ response' = [status |-> IN_PROGRESS, message |-> NONE,
                            grid |-> to_state_list(game_grid),
                            tokens |-> [computer |-> next_player(player),
                                        current_turn |-> current_turn',
                                        player |-> player]]
            /\ UNCHANGED <<player, game_over>>
  /\ UNCHANGED <<heap, grids>>

Next ==
  \/ \E key \in RandomKeys : Get(key)
  \/ \E key \in RandomKeys : ResetBoard(key)
  \/ UnknownAction
  \/ \E p \in Tokens : \E x \in Coords : \E y \in Coords : TakeCell(p, x, y)

Spec == Init /\ [][Next]_vars

(* ---------------- direct calls on a Grid's cells (cell_test.py, grid_test.py) ---------------- *)
RAISED == "raised"
RETURNED == "returned"
SETUP == "setUp"
CELL_TAKE == "Cell.take"

\* setUp: self.game_board = grid.Grid()
SetUp ==
  /\ board' = make_board
  /\ request' = [action |-> SETUP, player |-> NONE]
  /\ response' = [status |-> RETURNED, message |-> NONE, grid |-> NoGrid, tokens |-> NoTokens]
  /\ UNCHANGED <<player, current_turn, game_over, heap, grids>>

\* game_board.board[x][y].take(token); the request records the token passed,
\* the response the outcome of the call.
CellTake(x, y, token) ==
  LET r == take(board[x][y], token) IN
  /\ request' = [action |-> CELL_TAKE, player |-> token]
  /\ response' = [status |-> IF r.raised = NONE THEN RETURNED ELSE RAISED,
                  message |-> r.raised,
                  grid |-> NoGrid,
                  tokens |-> NoTokens]
  /\ board' = [board EXCEPT ![x][y] = r.state]
  /\ UNCHANGED <<player, current_turn, game_over, heap, grids>>

NextCell ==
  \/ SetUp
  \/ \E x \in Rows : \E y \in Cols : \E token \in Tokens : CellTake(x, y, token)

\* A fresh Grid, with the registry as Play.get leaves it for the human player X.
InitCell == Init /\ player = TAKEN_X

SpecCell == InitCell /\ [][NextCell]_vars

(* ---------------- direct calls on a Grid (grid_test.py) ---------------- *)
RETURNED_TRUE == "returned True"
RETURNED_FALSE == "returned False"
CONTAINS_TIE == "Grid.contains_tie"
TO_STATE_LIST == "Grid.to_state_list"

\* game_board.contains_tie(); the status records the boolean returned.
ContainsTie ==
  /\ request' = [action |-> CONTAINS_TIE, player |-> NONE]
  /\ response' = [status |-> IF contains_tie(board) THEN RETURNED_TRUE ELSE RETURNED_FALSE,
                  message |-> NONE,
                  grid |-> NoGrid,
                  tokens |-> NoTokens]
  /\ UNCHANGED <<board, player, current_turn, game_over, heap, grids>>

\* game_board.to_state_list(); the response's grid is the list returned.
ToStateList ==
  /\ request' = [action |-> TO_STATE_LIST, player |-> NONE]
  /\ response' = [status |-> RETURNED,
                  message |-> NONE,
                  grid |-> to_state_list(board),
                  tokens |-> NoTokens]
  /\ UNCHANGED <<board, player, current_turn, game_over, heap, grids>>

\* The tests of grid_test.py take cells with X and O only.
NextGrid ==
  \/ SetUp
  \/ \E x \in Rows : \E y \in Cols : \E token \in {TAKEN_X, TAKEN_O} : CellTake(x, y, token)
  \/ ContainsTie
  \/ ToStateList

SpecGrid == InitCell /\ [][NextGrid]_vars

(* ---------------- direct calls on two Grid instances and on State ---------------- *)
GRID_A == "a"
GRID_B == "b"
Instances == {GRID_A, GRID_B}

\* The ids of Cell objects; two instances are alive at any time.
CellIds == 0 .. (2 * MAX_HORIZONTAL_CELLS * MAX_VERTICAL_CELLS - 1)

\* The taken cells the two instances hold together.
MaxTaken == 1

NEW_GRID == "Grid"
NEXT_PLAYER == "State.next_player"
CHECK_COORDINATES == "Grid.check_coordinates"

\* The ids of the Cell objects of a board.
ids(b) == {b[x][y] : x \in Rows, y \in Cols}

\* Grid.__make_board handing out the same Cell objects to every Grid.
new_cells_shared(used) ==
  [x \in Rows |-> [y \in Cols |-> x * MAX_VERTICAL_CELLS + y]]

\* Grid.__make_board: each Cell(x, y) is a new object, one whose id no live
\* object has; the ids are handed out in the order of the two loops.
new_cells(used) ==
  LET free == CellIds \ used
      nth(k) == CHOOSE id \in free : Cardinality({f \in free : f < id}) = k
  IN [x \in Rows |-> [y \in Cols |-> nth(x * MAX_VERTICAL_CELLS + y)]]

\* a = grid.Grid(); b = grid.Grid(), with the registry as Play.get leaves it
\* for the human player X.
InitUnit ==
  /\ board = make_board
  /\ player = TAKEN_X
  /\ current_turn = TAKEN_X
  /\ request = [action |-> REQ_GET, player |-> NONE]
  /\ response = [status |-> TEMPLATE, message |-> NONE,
                 grid |-> to_state_list(make_board),
                 tokens |-> [computer |-> NONE, current_turn |-> TAKEN_X, player |-> player]]
  /\ game_over = FALSE
  /\ grids = [g \in Instances |->
                IF g = GRID_A THEN new_cells({}) ELSE new_cells(ids(new_cells({})))]
  /\ heap = [id \in CellIds |-> EMPTY]

\* g = grid.Grid(): the instance g held before is dropped, its Cell objects
\* are garbage and the new Grid gets objects of its own, all EMPTY.
NewGrid(g) ==
  \E cells \in {new_cells(UNION {ids(grids[h]) : h \in Instances \ {g}})} :
    \E fresh \in {ids(cells)} :
      /\ request' = [action |-> NEW_GRID, player |-> NONE]
      /\ response' = [status |-> RETURNED, message |-> NONE, grid |-> NoGrid, tokens |-> NoTokens]
      /\ grids' = [grids EXCEPT ![g] = cells]
      /\ heap' = [id \in CellIds |-> IF id \in fresh THEN EMPTY ELSE heap[id]]
      /\ UNCHANGED <<board, player, current_turn, game_over>>

\* g.board[x][y].take(token)
TakeOn(g, x, y, token) ==
  LET id == grids[g][x][y]
      r == take(heap[id], token)
  IN
  /\ request' = [action |-> CELL_TAKE, player |-> token]
  /\ response' = [status |-> IF r.raised = NONE THEN RETURNED ELSE RAISED,
                  message |-> r.raised,
                  grid |-> NoGrid,
                  tokens |-> NoTokens]
  /\ heap' = [heap EXCEPT ![id] = r.state]
  /\ \/ r.raised # NONE
     \/ Cardinality({c \in CellIds : heap[c] # EMPTY}) < MaxTaken
  /\ UNCHANGED <<board, player, current_turn, game_over, grids>>

\* State.next_player(token); the token returned is recorded as the
\* response's current_turn token.
NextPlayerCall(token) ==
  /\ request' = [action |-> NEXT_PLAYER, player |-> token]
  /\ response' = [status |-> RETURNED,
                  message |-> NONE,
                  grid |-> NoGrid,
                  tokens |-> [computer |-> NONE,
                              current_turn |-> next_player(token),
                              player |-> NONE]]
  /\ UNCHANGED <<board, player, current_turn, game_over, heap, grids>>

\* a.check_coordinates({'position_x': x, 'position_y': y})
CheckCoordinates(position_x, position_y) ==
  /\ request' = [action |-> CHECK_COORDINATES, player |-> NONE]
  /\ response' = IF check_coordinates(position_x, position_y)
                 THEN [status |-> RAISED, message |-> MSG_POSITION,
                       grid |-> NoGrid, tokens |-> NoTokens]
                 ELSE [status |-> RETURNED, message |-> NONE,
                       grid |-> NoGrid, tokens |-> NoTokens]
  /\ UNCHANGED <<board, player, current_turn, game_over, heap, grids>>

NextUnit ==
  \/ \E g \in Instances : NewGrid(g)
  \/ \E g \in Instances : \E x \in Rows : \E y \in Cols :
       \E token \in {TAKEN_X, TAKEN_O} : TakeOn(g, x, y, token)
  \/ \E token \in Tokens : NextPlayerCall(token)
  \/ \E x \in Coords : \E y \in Coords : CheckCoordinates(x, y)

SpecUnit == InitUnit /\ [][NextUnit]_vars

(* ---------------- direct calls of the win checks of a Grid (grid_test.py) ---------------- *)
CONTAINS_WINNER == "Grid.contains_winner"
IS_DIAGONAL_WIN == "Grid.__is_diagonal_win"

\* game_board.contains_winner(p, {'position_x': x, 'position_y': y}); the
\* request records the player passed, the status the boolean returned.
ContainsWinner(p, position_x, position_y) ==
  /\ request' = [action |-> CONTAINS_WINNER, player |-> p]
  /\ response' = [status |-> IF contains_winner(board, p, position_x, position_y)
                             THEN RETURNED_TRUE ELSE RETURNED_FALSE,
                  message |-> NONE,
                  grid |-> NoGrid,
                  tokens |-> NoTokens]
  /\ UNCHANGED <<board, player, current_turn, game_over, heap, grids>>

\* game_board._Grid__is_diagonal_win(p, column, row)
IsDiagonalWin(p, column, row) ==
  /\ request' = [action |-> IS_DIAGONAL_WIN, player |-> p]
  /\ response' = [status |-> IF is_diagonal_win(board, p, column, row)
                             THEN RETURNED_TRUE ELSE RETURNED_FALSE,
                  message |-> NONE,
                  grid |-> NoGrid,
                  tokens |-> NoTokens]
  /\ UNCHANGED <<board, player, current_turn, game_over, heap, grids>>

\* The tests of contains_winner.
NextWin ==
  \/ SetUp
  \/ \E x \in Rows : \E y \in Cols : \E token \in {TAKEN_X, TAKEN_O} : CellTake(x, y, token)
  \/ \E p \in {TAKEN_X, TAKEN_O} : \E x \in Rows : \E y \in Cols : ContainsWinner(p, x, y)

SpecWin == InitCell /\ [][NextWin]_vars

\* The diagonal check called on its own.
NextDiagonal ==
  \/ SetUp
  \/ \E x \in Rows : \E y \in Cols : \E token \in {TAKEN_X, TAKEN_O} : CellTake(x, y, token)
  \/ \E p \in {TAKEN_X, TAKEN_O} : \E x \in Rows : \E y \in Cols : IsDiagonalWin(p, y, x)

SpecDiagonal == InitCell /\ [][NextDiagonal]_vars

(* ======================= properties ======================= *)
Players == {TAKEN_X, TAKEN_O}

\* The eight lines of the board, as sets of <<x, y>> positions.
Lines ==
  {{<<x, y>> : y \in Cols} : x \in Rows} \cup
  {{<<x, y>> : x \in Rows} : y \in Cols} \cup
  {{<<i, i>> : i \in Rows}, {<<i, MAX_VERTICAL_CELLS - 1 - i>> : i \in Rows}}

Owns(b, p, line) == \A c \in line : b[c[1]][c[2]] = p
OwnsLineThrough(b, p, x, y) == \E line \in Lines : <<x, y>> \in line /\ Owns(b, p, line)
OwnsSomeLine(b, p) == \E line \in Lines : Owns(b, p, line)
Full(b) == \A x \in Rows : \A y \in Cols : b[x][y] # EMPTY
\* The other player, for p in Players.
Opposite(p) == CASE p = TAKEN_X -> TAKEN_O [] p = TAKEN_O -> TAKEN_X
Accepted(resp) == resp.status \in {IN_PROGRESS, WIN, TIE}

\* C1: a take request that is answered FAILED (wrong turn, coordinates off
\* the board, cell already taken) leaves every cell, current_turn and the
\* human player's token as they were.
C1_RejectedTakeChangesNothing ==
  [][(request'.action = REQ_TAKE /\ response'.status = FAILED)
       => UNCHANGED <<board, current_turn, player>>]_vars

\* A take on a taken cell has been rejected in a game with moves on the board.
C1_Witness ==
  /\ request.action = REQ_TAKE
  /\ response.status = FAILED
  /\ response.message = MSG_TAKEN
  /\ board # make_board

\* C2: an accepted move of p at (x, y) that leaves p owning a whole row,
\* column or diagonal through (x, y) is answered WIN for p.
C2_CompletedLineIsWin ==
  [][(request'.action = REQ_TAKE /\ Accepted(response')) =>
       \A x \in Rows : \A y \in Cols :
         (TakeCell(request'.player, x, y) /\ OwnsLineThrough(board', request'.player, x, y))
           => (response'.status = WIN /\ response'.tokens.current_turn = request'.player)]_vars

\* C3: an accepted move that fills the last empty cell and leaves the mover
\* owning a whole line is answered WIN for the mover, never TIE.
C3_WinBeforeTie ==
  [][(/\ request'.action = REQ_TAKE
      /\ Accepted(response')
      /\ board' # board
      /\ Full(board')
      /\ OwnsSomeLine(board', request'.player))
       => (response'.status = WIN /\ response'.tokens.current_turn = request'.player)]_vars

\* C4: when the answer is TIE every cell is owned and neither player owns
\* a whole row, column or diagonal.
C4_TieHasNoLine ==
  response.status = TIE
    => (Full(board) /\ \A p \in Players : ~OwnsSomeLine(board, p))

\* C5: once a take has been answered WIN or TIE, every later take is
\* answered FAILED and changes neither the board nor current_turn, until a
\* new game or reset.
C5_WonAndTiedAreTerminal ==
  [][(game_over /\ request'.action = REQ_TAKE)
       => (response'.status = FAILED /\ UNCHANGED <<board, current_turn>>)]_vars

\* C6: in every step other than a new game or reset, a cell changes only
\* from EMPTY to X or O; a cell that is X or O keeps its value.
C6_CellChangesOnce ==
  [][\/ board' = board
     \/ request'.action \in {REQ_GET, REQ_RESET}
     \/ \A x \in Rows : \A y \in Cols :
          board'[x][y] # board[x][y]
            => (board[x][y] = EMPTY /\ board'[x][y] \in Players)]_vars

\* A take of a taken cell by the player whose turn it is was refused.
C6_Witness ==
  /\ request.action = REQ_TAKE
  /\ request.player = current_turn
  /\ response.message = MSG_TAKEN

\* C7: a new game (GET or reset) starts with current_turn = X whatever the
\* human player's token; a take by a player other than current_turn is answered
\* 'Wait your turn' and leaves the board alone; after an accepted take by p
\* answered IN_PROGRESS, current_turn is the opposite of p.
C7_TurnsAlternate ==
  [][/\ request'.action \in {REQ_GET, REQ_RESET} => current_turn' = TAKEN_X
     /\ (request'.action = REQ_TAKE /\ request'.player # current_turn)
          => (response' = Failed(MSG_TURN) /\ board' = board)
     /\ (request'.action = REQ_TAKE /\ response'.status = IN_PROGRESS)
          => (/\ request'.player = current_turn
              /\ request'.player \in Players
              /\ current_turn' = Opposite(request'.player))]_vars

\* X is to move again after O's accepted move.
C7_Witness ==
  /\ request = [action |-> REQ_TAKE, player |-> TAKEN_O]
  /\ response.status = IN_PROGRESS
  /\ current_turn = TAKEN_X

\* C8: current_turn is X or O in every reachable state.
C8_TurnIsPlayer == current_turn \in Players

\* A take carrying the EMPTY token was rejected while it was O's turn.
C8_Witness ==
  /\ current_turn = TAKEN_O
  /\ request = [action |-> REQ_TAKE, player |-> EMPTY]
  /\ response.status = FAILED

\* C9: when a take by p at (x, y) is answered WIN, the winner reported is
\* p, it was p's turn, and p owns a whole line that contains (x, y).
C9_WinIsSound ==
  [][(request'.action = REQ_TAKE /\ response'.status = WIN) =>
       /\ response'.tokens.current_turn = request'.player
       /\ current_turn = request'.player
       /\ \A x \in Coords : \A y \in Coords :
            TakeCell(request'.player, x, y)
              => (x \in Rows /\ y \in Cols /\ OwnsLineThrough(board', request'.player, x, y))]_vars

\* A diagonal win has been reported.
C9_Witness ==
  /\ response.status = WIN
  /\ \E line \in Lines :
       /\ <<0, 0>> \in line /\ <<1, 1>> \in line
       /\ Owns(board, response.tokens.current_turn, line)

\* C10: Cell.take on a cell that is X or O raises 'Cannot change state of
\* taken cell.' for every token (X, O, EMPTY, unrecognized) and leaves the
\* cell's state as it was: a step that is not such a refusal is not a take
\* on a taken cell.
C10_TakenCellRejectsEveryToken ==
  [][request'.action = CELL_TAKE =>
       \/ /\ response'.status = RAISED
          /\ response'.message = MSG_TAKEN
          /\ board' = board
       \/ \A x \in Rows : \A y \in Cols :
            board[x][y] \in Players => ~CellTake(x, y, request'.player)]_vars

\* A take with the EMPTY token was refused because the cell was taken.
C10_Witness ==
  /\ request = [action |-> CELL_TAKE, player |-> EMPTY]
  /\ response.status = RAISED
  /\ response.message = MSG_TAKEN

\* The messages of the two invalid-token refusals of Cell.take.
InvalidTokenMessages == {MSG_EMPTY_STATE, MSG_UNDEFINED}

\* C11 as claimed: Cell.take with the EMPTY token or an unrecognized token
\* raises an invalid-token error in every cell state, fresh or taken, and
\* leaves the board as it was.
C11_InvalidTokenAlwaysInvalidToken ==
  [][(request'.action = CELL_TAKE /\ request'.player \notin Players) =>
       /\ response'.status = RAISED
       /\ response'.message \in InvalidTokenMessages
       /\ board' = board]_vars

\* C11 amended: Cell.take with the EMPTY token or an unrecognized token
\* always raises and leaves the board as it was; the error is the
\* invalid-token one when the cell is EMPTY and the taken-cell one when the
\* cell is X or O.
C11_InvalidTokenRefused ==
  [][(request'.action = CELL_TAKE /\ request'.player \notin Players) =>
       /\ response'.status = RAISED
       /\ board' = board
       /\ \A x \in Rows : \A y \in Cols :
            \/ response'.message =
                 IF board[x][y] # EMPTY THEN MSG_TAKEN
                 ELSE IF request'.player = EMPTY THEN MSG_EMPTY_STATE
                 ELSE MSG_UNDEFINED
            \/ ~ CellTake(x, y, request'.player)]_vars

\* An unrecognized token was refused on a cell that is still EMPTY.
C11_Witness ==
  /\ request = [action |-> CELL_TAKE, player |-> FOO_PLAYER]
  /\ response.status = RAISED
  /\ response.message = MSG_UNDEFINED
  /\ board = make_board

\* C12: when a take is answered WIN or TIE, current_turn is not passed on:
\* after the request it is what it was before, the token of the player who
\* made the move.
C12_TurnStaysAtGameEnd ==
  [][(request'.action = REQ_TAKE /\ response'.status \in {WIN, TIE}) =>
       /\ current_turn' = current_turn
       /\ current_turn' = request'.player]_vars

\* O has just made a winning move and the turn is still O's.
C12_Witness ==
  /\ request = [action |-> REQ_TAKE, player |-> TAKEN_O]
  /\ response.status = WIN
  /\ current_turn = TAKEN_O

\* C14: contains_tie returns True exactly when none of the nine cells is
\* EMPTY, on every board, whether or not a player owns a complete line.
C14_TieIffBoardFull ==
  request.action = CONTAINS_TIE =>
    /\ response.status \in {RETURNED_TRUE, RETURNED_FALSE}
    /\ (response.status = RETURNED_TRUE) <=> Full(board)

\* contains_tie has returned True on a full board on which X owns a line.
C14_Witness ==
  /\ request.action = CONTAINS_TIE
  /\ response.status = RETURNED_TRUE
  /\ Full(board)
  /\ OwnsSomeLine(board, TAKEN_X)

\* C16: to_state_list returns a 3x3 list whose entry [i][j] is the state of
\* board cell [i][j], and the call changes no cell.
C16_StateListMirrorsBoard ==
  [][request'.action = TO_STATE_LIST =>
       /\ board' = board
       /\ response'.status = RETURNED
       /\ DOMAIN response'.grid = 0 .. 2
       /\ \A i \in 0 .. 2 :
            /\ DOMAIN response'.grid[i] = 0 .. 2
            /\ \A j \in 0 .. 2 : response'.grid[i][j] = board[i][j]]_vars

\* to_state_list has returned the list of a board that is not symmetric.
C16_Witness ==
  /\ request.action = TO_STATE_LIST
  /\ response.grid[1][0] = TAKEN_O
  /\ response.grid[0][1] = EMPTY
  /\ response.grid[0][0] = TAKEN_X
  /\ board[1][0] = TAKEN_O

\* C15: a reset request, whatever the board, current_turn and the human
\* player's token were and whichever token is drawn for the human player,
\* leaves all nine cells EMPTY and current_turn at X.
C15_ResetGivesFreshGame ==
  [][request'.action = REQ_RESET =>
       /\ \A x \in Rows : \A y \in Cols : board'[x][y] = EMPTY
       /\ current_turn' = TAKEN_X]_vars

\* A reset has drawn O for the human player; the board is empty and X is to move.
C15_Witness ==
  /\ request.action = REQ_RESET
  /\ response.status = IN_PROGRESS
  /\ player = TAKEN_O
  /\ current_turn = TAKEN_X
  /\ \A x \in Rows : \A y \in Cols : board[x][y] = EMPTY

\* C18: an accepted take by player p at (x, y) changes cell (x, y) from EMPTY
\* to p and leaves the other eight cells as they were.
C18_AcceptedTakeSetsOneCell ==
  [][(request'.action = REQ_TAKE /\ Accepted(response')) =>
       \A x \in Coords : \A y \in Coords :
         \/ ~ TakeCell(request'.player, x, y)
         \/ /\ x \in Rows
            /\ y \in Cols
            /\ board[x][y] = EMPTY
            /\ board'[x][y] = request'.player
            /\ \A i \in Rows : \A j \in Cols :
                 <<i, j>> # <<x, y>> => board'[i][j] = board[i][j]]_vars

\* O's first move, at (2,1), was accepted after X's at (0,0).
C18_Witness ==
  /\ request = [action |-> REQ_TAKE, player |-> TAKEN_O]
  /\ response.status = IN_PROGRESS
  /\ board = [make_board EXCEPT ![0][0] = TAKEN_X, ![2][1] = TAKEN_O]

\* C19: a take request whose player token is EMPTY or unrecognized is
\* refused ('Wait your turn') and changes no cell, and every cell holds
\* EMPTY, X or O after every step.
C19_OnlyPlayersTakeCells ==
  [][/\ (request'.action = REQ_TAKE /\ request'.player \notin Players) =>
          /\ response' = Failed(MSG_TURN)
          /\ board' = board
     /\ board' # board =>
          \A x \in Rows : \A y \in Cols : board'[x][y] \in {EMPTY, TAKEN_X, TAKEN_O}]_vars

\* An unrecognized token was refused in the middle of a game.
C19_Witness ==
  /\ request = [action |-> REQ_TAKE, player |-> FOO_PLAYER]
  /\ response.status = FAILED
  /\ board[1][1] = TAKEN_X
  /\ board[0][2] = TAKEN_O

\* C13: check_coordinates raises exactly when x or y lies outside 0..2, for
\* every pair of integers, and changes no cell.
C13_OutOfBoundsIffOffBoard ==
  [][request'.action = CHECK_COORDINATES =>
       /\ UNCHANGED <<board, heap, grids>>
       /\ response'.status \in {RAISED, RETURNED}
       /\ \A x \in Coords : \A y \in Coords :
            \/ (response'.status = RAISED) <=> (x < 0 \/ x > 2 \/ y < 0 \/ y > 2)
            \/ ~ CheckCoordinates(x, y)]_vars

\* check_coordinates has raised while an instance had a taken cell.
C13_Witness ==
  /\ request.action = CHECK_COORDINATES
  /\ response.status = RAISED
  /\ response.message = MSG_POSITION
  /\ heap[grids[GRID_A][1][1]] = TAKEN_X

\* C17: next_player returns O for X and X for every other token (O, EMPTY,
\* unrecognized); so it swaps X and O and its result is always X or O.
C17_NextPlayerTable ==
  request.action = NEXT_PLAYER =>
    LET given == request.player
        returned == response.tokens.current_turn
    IN /\ returned \in {TAKEN_X, TAKEN_O}
       /\ given = TAKEN_X => returned = TAKEN_O
       /\ given # TAKEN_X => returned = TAKEN_X
       /\ given \in {TAKEN_X, TAKEN_O} => next_player(returned) = given

\* next_player has returned X for an unrecognized token.
C17_Witness ==
  /\ request = [action |-> NEXT_PLAYER, player |-> FOO_PLAYER]
  /\ response.tokens.current_turn = TAKEN_X

\* The states of the cells of instance g, read through the heap.
StatesOf(h, gs, g) == [x \in Rows |-> [y \in Cols |-> h[gs[g][x][y]]]]

\* C20: two Grid instances share no Cell object; a take on a cell of one
\* instance leaves every cell of the other as it was, and creating a Grid
\* in place of one instance gives nine EMPTY cells and leaves every cell of
\* the other instance as it was.
C20_InstancesShareNothing ==
  [][/\ ids(grids'[GRID_A]) \cap ids(grids'[GRID_B]) = {}
     /\ request'.action = CELL_TAKE =>
          \A g \in Instances : \A x \in Rows : \A y \in Cols :
            \/ ~ TakeOn(g, x, y, request'.player)
            \/ \A h \in Instances \ {g} :
                 StatesOf(heap', grids', h) = StatesOf(heap, grids, h)
     /\ request'.action = NEW_GRID =>
          \A g \in Instances :
            \/ ~ NewGrid(g)
            \/ /\ StatesOf(heap', grids', g) = make_board
               /\ \A h \in Instances \ {g} :
                    StatesOf(heap', grids', h) = StatesOf(heap, grids, h)]_vars

\* O has taken a cell of instance b and the same cell of instance a is EMPTY.
C20_Witness ==
  /\ request = [action |-> CELL_TAKE, player |-> TAKEN_O]
  /\ response.status = RETURNED
  /\ heap[grids[GRID_B][0][2]] = TAKEN_O
  /\ heap[grids[GRID_A][0][2]] = EMPTY

\* C21: __take_cell checks the turn, then the coordinates, then the cell: a
\* take by a player whose turn it is not is answered 'Wait your turn', on
\* or off the board and on a taken cell alike, and a take by the player to
\* move with coordinates off the board is answered with the position error;
\* neither changes a cell.
C21_TurnThenCoordinatesThenCell ==
  [][request'.action = REQ_TAKE =>
       IF request'.player # current_turn
       THEN response' = Failed(MSG_TURN) /\ board' = board
       ELSE \/ response' = Failed(MSG_POSITION) /\ board' = board
            \/ \A x \in Coords : \A y \in Coords :
                 (x \in Rows /\ y \in Cols) \/ ~ TakeCell(request'.player, x, y)]_vars

\* O, to move in the middle of a game, asked for a cell off the board.
C21_Witness ==
  /\ request = [action |-> REQ_TAKE, player |-> TAKEN_O]
  /\ current_turn = TAKEN_O
  /\ response = Failed(MSG_POSITION)
  /\ board[1][1] = TAKEN_X

\* C22: for every board, player p and last move (x, y) on the board,
\* contains_winner(p, (x, y)) returns True whenever p owns the three cells
\* board[x][0..2] or the three cells board[0..2][y]; the call changes no cell.
C22_StraightLinesThroughLastMove ==
  [][request'.action = CONTAINS_WINNER =>
       /\ board' = board
       /\ \/ response'.status = RETURNED_TRUE
          \/ /\ \A x \in Rows :
                  \/ \E j \in Cols : board[x][j] # request'.player
                  \/ \A y \in Cols : ~ ContainsWinner(request'.player, x, y)
             /\ \A y \in Cols :
                  \/ \E i \in Rows : board[i][y] # request'.player
                  \/ \A x \in Rows : ~ ContainsWinner(request'.player, x, y)]_vars

\* contains_winner has returned True for O on a board where O owns the
\* cells board[0..2][0] and nothing else is taken.
C22_Witness ==
  /\ request = [action |-> CONTAINS_WINNER, player |-> TAKEN_O]
  /\ response.status = RETURNED_TRUE
  /\ board = [make_board EXCEPT ![0][0] = TAKEN_O, ![1][0] = TAKEN_O, ![2][0] = TAKEN_O]

\* The two diagonals of the board.
Diagonals ==
  {{<<i, i>> : i \in Rows}, {<<i, MAX_VERTICAL_CELLS - 1 - i>> : i \in Rows}}

\* C23, for a last move of p at the centre, through which both diagonals
\* pass: on every board __is_diagonal_win returns True exactly when p owns
\* all three cells of at least one of the two diagonals.
C23_DiagonalWinIffDiagonalOwned ==
  [][request'.action = IS_DIAGONAL_WIN =>
       \/ board[1][1] # request'.player
       \/ (response'.status = RETURNED_TRUE)
            <=> (\E d \in Diagonals : Owns(board, request'.player, d))
       \/ ~ IsDiagonalWin(request'.player, 1, 1)]_vars

\* The number of cells of b that hold v.
Holding(b, v) == Cardinality({c \in Rows \X Cols : b[c[1]][c[2]] = v})

\* C24: in every reachable state the number of X cells minus the number of
\* O cells is 0 or 1.
C24_XLeadsByAtMostOne ==
  Holding(board, TAKEN_X) - Holding(board, TAKEN_O) \in {0, 1}

\* C25: a new game or reset leaves no taken cell, every accepted take adds
\* exactly one taken cell and every refused take none, so the taken cells
\* count the accepted takes since the last reset and there are at most nine
\* of them; on a full board every take is refused.
C25_GameIsFinite ==
  [][/\ request'.action \in {REQ_GET, REQ_RESET} => Holding(board', EMPTY) = 9
     /\ request'.action = REQ_UNKNOWN => board' = board
     /\ request'.action = REQ_TAKE =>
          /\ response'.status = FAILED \/ ~ Full(board)
          /\ IF Accepted(response')
             THEN /\ Holding(board, EMPTY) >= 1
                  /\ Holding(board', EMPTY) = Holding(board, EMPTY) - 1
             ELSE response'.status = FAILED /\ board' = board]_vars

\* The player to move asked for a cell of a full board and was refused.
C25_Witness ==
  /\ Full(board)
  /\ request.action = REQ_TAKE
  /\ request.player = current_turn
  /\ response = Failed(MSG_TAKEN)

\* C26: a take never changes the human player's token, which is X or O after
\* every step, and a take answered in_progress reports the board after the
\* move, the new current_turn, and as the computer's token the other
\* player's, which differs from the human player's.
C26_TakeKeepsPlayerAndReportsState ==
  [][/\ player' \in Players
     /\ request'.action = REQ_TAKE =>
          /\ player' = player
          /\ response'.status = IN_PROGRESS =>
               /\ response'.tokens.current_turn = current_turn'
               /\ response'.tokens.player = player'
               /\ response'.tokens.computer = Opposite(player')
               /\ response'.tokens.computer # player'
               /\ DOMAIN response'.grid = Rows
               /\ \A x \in Rows : \A y \in Cols : response'.grid[x][y] = board'[x][y]]_vars

\* The human player is O, the computer X; X's first move was answered in_progress.
C26_Witness ==
  /\ request = [action |-> REQ_TAKE, player |-> TAKEN_X]
  /\ response.status = IN_PROGRESS
  /\ player = TAKEN_O
  /\ response.tokens.computer = TAKEN_X
  /\ response.tokens.current_turn = TAKEN_O
  /\ Holding(board, TAKEN_X) = 1

====
